---- MODULE Spec2Model ----
(***************************************************************************)
(* jessiql: resolution of a Query Object against a model                   *)
(* (query_object/resolve.py), compilation of its filter tree               *)
(* (operations/filter.py) and of its sort fields (operations/sort.py).     *)
(*                                                                         *)
(* Python objects are records.  An operation's result is an outcome:       *)
(* Return(v) or Raise(exc, info).  A function that mutates its argument    *)
(* in place gives back the argument as it is left, next to the outcome.    *)
(***************************************************************************)
EXTENDS Integers, Sequences, FiniteSets, TLC

VARIABLES SCALAR_OPERATORS, ARRAY_OPERATORS, query, last

vars == <<SCALAR_OPERATORS, ARRAY_OPERATORS, query, last>>

(***************************************************************************)
(* Bounds of the model.                                                    *)
(***************************************************************************)
MaxInt == 2
MaxClauses == 2
MaxSort == 3

(***************************************************************************)
(* Python values.                                                          *)
(***************************************************************************)
None == [t |-> "None"]
PyInt(n) == [t |-> "int", v |-> n]
PyBool(b) == [t |-> "bool", v |-> b]
PyList(s) == [t |-> "list", v |-> s]

\* bool(x): the truth value Python gives a value in a condition
Truthy(x) ==
    CASE x.t = "None" -> FALSE
      [] x.t = "bool" -> x.v
      [] x.t = "int" -> x.v /= 0
      [] x.t = "list" -> Len(x.v) > 0

\* x == 0 between Python values (False == 0 is true in Python)
PyEqualsZero(x) ==
    CASE x.t = "int" -> x.v = 0
      [] x.t = "bool" -> ~x.v
      [] OTHER -> FALSE

Return(v) == [kind |-> "return", value |-> v]
Raise(exc, info) == [kind |-> "raise", exc |-> exc, info |-> info]
Raised(o) == o.kind = "raise"

\* the index of the first element of a sequence of outcomes that raised, or 0
FirstRaise(outs) ==
    IF \E i \in 1..Len(outs) : Raised(outs[i])
    THEN CHOOSE i \in 1..Len(outs) :
            Raised(outs[i]) /\ \A j \in 1..(i - 1) : ~Raised(outs[j])
    ELSE 0

(***************************************************************************)
(* The model class the query is bound to, and the catalog of its columns   *)
(* and relations (jessiql.sainfo).                                         *)
(***************************************************************************)
ColumnShape == [price |-> "scalar", tags |-> "array", meta |-> "json"]
ColumnNames == DOMAIN ColumnShape
RelationUselist == [articles |-> PyBool(TRUE), author |-> PyBool(FALSE), pending |-> None]
RelationNames == DOMAIN RelationUselist
UnknownName == "doesNotExist"

ColumnProperty(name) == [kind |-> "property", name |-> name, shape |-> ColumnShape[name]]
RelationProperty(name) == [kind |-> "relationship", name |-> name, uselist |-> RelationUselist[name]]
ColumnAttribute(name) == [kind |-> "attribute", name |-> name, property |-> ColumnProperty(name)]
RelationAttribute(name) == [kind |-> "attribute", name |-> name, property |-> RelationProperty(name)]

\* the mapped class: its attributes are its columns and relations
target_Model ==
    [kind |-> "Model",
     price |-> ColumnAttribute("price"), tags |-> ColumnAttribute("tags"),
     meta |-> ColumnAttribute("meta"),
     articles |-> RelationAttribute("articles"), author |-> RelationAttribute("author"),
     pending |-> RelationAttribute("pending")]

SchemaResolutionError(name, where) ==
    Raise("SchemaResolutionError", [name |-> name, where |-> where])

resolve_column_by_name(name, Model, where) ==
    IF name \in ColumnNames THEN Return(Model[name])
    ELSE SchemaResolutionError(name, where)

resolve_relation_by_name(name, Model, where) ==
    IF name \in RelationNames THEN Return(Model[name])
    ELSE SchemaResolutionError(name, where)

is_array(attribute) == attribute.property.shape = "array"
is_json(attribute) == attribute.property.shape = "json"

(***************************************************************************)
(* Query Object nodes, as built from the input (nothing resolved yet).     *)
(***************************************************************************)
SelectedField(name) ==
    [kind |-> "SelectedField", name |-> name, property |-> None,
     is_array |-> None, is_json |-> None]
SelectedRelation(name) ==
    [kind |-> "SelectedRelation", name |-> name, property |-> None, uselist |-> None]
SortingField(name, desc) ==
    [kind |-> "SortingField", name |-> name, desc |-> desc, property |-> None]
FieldExpression(field, operator, value) ==
    [kind |-> "FieldExpression", field |-> field, operator |-> operator, value |-> value,
     property |-> None, is_array |-> None, is_json |-> None]
BooleanExpression(operator, clauses) ==
    [kind |-> "BooleanExpression", operator |-> operator, clauses |-> clauses]

(***************************************************************************)
(* query_object/resolve.py                                                 *)
(***************************************************************************)
resolve_selected_field(field, Model, where) ==
    LET attribute == resolve_column_by_name(field.name, Model, where)
    IN  IF Raised(attribute) THEN [out |-> attribute, node |-> field]
        ELSE [out |-> Return(None),
              node |-> [field EXCEPT !.property = attribute.value.property,
                                     !.is_array = PyBool(is_array(attribute.value)),
                                     !.is_json = PyBool(is_json(attribute.value))]]

resolve_selected_relation(field, Model, where) ==
    LET attribute == resolve_relation_by_name(field.name, Model, where)
    IN  IF Raised(attribute) THEN [out |-> attribute, node |-> field]
        ELSE LET f1 == [field EXCEPT !.property = attribute.value.property]
             IN  IF f1.property.uselist = None
                 THEN [out |-> Raise("AssertionError", [name |-> field.name, where |-> where]),
                       node |-> f1]
                 ELSE [out |-> Return(None),
                       node |-> [f1 EXCEPT !.uselist = f1.property.uselist]]

resolve_sorting_field(field, Model, where) ==
    LET attribute == resolve_column_by_name(field.name, Model, where)
    IN  IF Raised(attribute) THEN [out |-> attribute, node |-> field]
        ELSE [out |-> Return(None),
              node |-> [field EXCEPT !.property = attribute.value.property]]

\* def resolve_filtering_field_expression(expression, Model, *, where): the body
\* reads expression.field, writes three attributes of expression and ends
\* without a return statement, so the call evaluates to None.
resolve_filtering_field_expression(expression, Model, where) ==
    IF "field" \notin DOMAIN expression
    THEN [out |-> Raise("AttributeError", [name |-> "field", where |-> where]),
          node |-> expression]
    ELSE LET attribute == resolve_column_by_name(expression.field, Model, where)
         IN  IF Raised(attribute) THEN [out |-> attribute, node |-> expression]
             ELSE [out |-> Return(None),
                   node |-> [expression EXCEPT
                                !.property = attribute.value.property,
                                !.is_array = PyBool(is_array(attribute.value)),
                                !.is_json = PyBool(is_json(attribute.value))]]

\* a for loop over elements that are resolved in place: the elements before the
\* first one that raises are left resolved, the rest untouched
ResolveLoop(results, elements) ==
    LET k == FirstRaise([i \in 1..Len(results) |-> results[i].out])
    IN  [out |-> IF k = 0 THEN Return(None) ELSE results[k].out,
         nodes |-> [i \in 1..Len(elements) |->
                       IF k = 0 \/ i <= k THEN results[i].node ELSE elements[i]]]

RECURSIVE resolve_input_element(_, _, _)
\* variant: the clauses are resolved under a tag of their own
resolve_filtering_boolean_expression_retagged(expression, Model, where) ==
    LET results == [i \in 1..Len(expression.clauses) |->
                       resolve_input_element(expression.clauses[i], Model, "boolean")]
        loop == ResolveLoop(results, expression.clauses)
    IN  [out |-> loop.out, node |-> [expression EXCEPT !.clauses = loop.nodes]]

resolve_filtering_boolean_expression(expression, Model, where) ==
    LET results == [i \in 1..Len(expression.clauses) |->
                       resolve_input_element(expression.clauses[i], Model, where)]
        loop == ResolveLoop(results, expression.clauses)
    IN  [out |-> loop.out, node |-> [expression EXCEPT !.clauses = loop.nodes]]

\* singledispatch on the type of the element
resolve_input_element(element, Model, where) ==
    CASE element.kind = "SelectedField" -> resolve_selected_field(element, Model, where)
      [] element.kind = "SelectedRelation" -> resolve_selected_relation(element, Model, where)
      [] element.kind = "SortingField" -> resolve_sorting_field(element, Model, where)
      [] element.kind = "BooleanExpression" ->
            resolve_filtering_boolean_expression(element, Model, where)
      [] element.kind = "FieldExpression" ->
            resolve_filtering_field_expression(element, Model, where)
      [] OTHER -> [out |-> Raise("NotImplementedError", [name |-> element.kind, where |-> where]),
                   node |-> element]

resolve_select(select, Model, where) ==
    LET fields == ResolveLoop(
            [i \in 1..Len(select.fields) |-> resolve_selected_field(select.fields[i], Model, where)],
            select.fields)
        relations == ResolveLoop(
            [i \in 1..Len(select.relations) |->
                resolve_selected_relation(select.relations[i], Model, where)],
            select.relations)
    IN  IF Raised(fields.out)
        THEN [out |-> fields.out, node |-> [select EXCEPT !.fields = fields.nodes]]
        ELSE [out |-> relations.out,
              node |-> [select EXCEPT !.fields = fields.nodes, !.relations = relations.nodes]]

resolve_sort(sort, Model, where) ==
    LET loop == ResolveLoop(
            [i \in 1..Len(sort.fields) |-> resolve_sorting_field(sort.fields[i], Model, where)],
            sort.fields)
    IN  [out |-> loop.out, node |-> [sort EXCEPT !.fields = loop.nodes]]

resolve_filter(filter, Model, where) ==
    LET loop == ResolveLoop(
            [i \in 1..Len(filter.conditions) |->
                resolve_input_element(filter.conditions[i], Model, where)],
            filter.conditions)
    IN  [out |-> loop.out, node |-> [filter EXCEPT !.conditions = loop.nodes]]

resolve_query_object(q, Model) ==
    LET s == resolve_select(q.select, Model, "select")
        o == resolve_sort(q.sort, Model, "sort")
        f == resolve_filter(q.filter, Model, "filter")
    IN  IF Raised(s.out) THEN [out |-> s.out, node |-> [q EXCEPT !.select = s.node]]
        ELSE IF Raised(o.out)
        THEN [out |-> o.out, node |-> [q EXCEPT !.select = s.node, !.sort = o.node]]
        ELSE [out |-> f.out,
              node |-> [q EXCEPT !.select = s.node, !.sort = o.node, !.filter = f.node]]

(***************************************************************************)
(* SQL expressions, as sqlalchemy builds them.  A Python value used as an  *)
(* operand is a bound literal.                                             *)
(***************************************************************************)
sa_true == [op |-> "true"]
sa_false == [op |-> "false"]
IsPyValue(x) == "t" \in DOMAIN x

\* a Python bool given where a clause is expected becomes true() or false()
Coerce(x) ==
    IF IsPyValue(x) /\ x.t = "bool" THEN (IF x.v THEN sa_true ELSE sa_false) ELSE x

IsEmptyClauseList(e) == "args" \in DOMAIN e /\ Len(e.args) = 0

\* BooleanClauseList._construct: the identity element is dropped, the absorbing
\* element is the whole result, a single clause is returned as it is, and no
\* clause at all gives an empty clause list
BooleanClauseList(operator, continue_on, skip_on, clauses) ==
    LET cs == [i \in 1..Len(clauses) |-> Coerce(clauses[i])]
        kept == SelectSeq(cs, LAMBDA c : c /= continue_on)
    IN  IF \E i \in 1..Len(cs) : cs[i] = skip_on THEN skip_on
        ELSE IF Len(kept) = 0
        THEN (IF Len(cs) > 0 THEN continue_on ELSE [op |-> operator, args |-> <<>>])
        ELSE IF Len(kept) = 1 THEN kept[1]
        ELSE [op |-> operator, args |-> kept]

sa_and_(clauses) == BooleanClauseList("and", sa_true, sa_false, clauses)
sa_or_(clauses) == BooleanClauseList("or", sa_false, sa_true, clauses)

\* sa.not_(x), ~x
sa_not_(x) ==
    LET c == Coerce(x)
    IN  IF c = sa_true THEN sa_false
        ELSE IF c = sa_false THEN sa_true
        ELSE [op |-> "not", arg |-> c]

\* x.self_group(): parentheses, except around a constant or an empty clause list
self_group(e) ==
    IF e \in {sa_true, sa_false} \/ IsEmptyClauseList(e) THEN e
    ELSE [op |-> "group", arg |-> e]

\* col == x and col != x: a comparison with None is IS NULL / IS NOT NULL
sa_eq(l, r) == IF r = None THEN [op |-> "is_null", arg |-> l] ELSE [op |-> "eq", l |-> l, r |-> r]
sa_ne(l, r) == IF r = None THEN [op |-> "is_not_null", arg |-> l] ELSE [op |-> "ne", l |-> l, r |-> r]
Binary(op, l, r) == [op |-> op, l |-> l, r |-> r]
array_length(col) == [op |-> "array_length", arg |-> col]

(***************************************************************************)
(* operations/filter.py                                                    *)
(***************************************************************************)
_is_array(value) == IsPyValue(value) /\ value.t = "list"

\* variant: the conditions joined with OR
sql_ored_together(conditions) ==
    IF Len(conditions) = 0 THEN PyBool(TRUE)
    ELSE LET cc == sa_or_(conditions)
         IN  IF Len(conditions) > 1 THEN self_group(cc) ELSE cc

sql_anded_together(conditions) ==
    IF Len(conditions) = 0 THEN PyBool(TRUE)
    ELSE LET cc == sa_and_(conditions)
         IN  IF Len(conditions) > 1 THEN self_group(cc) ELSE cc

ScalarSymbols ==
    {"$eq", "$ne", "$lt", "$lte", "$gt", "$gte", "$prefix", "$in", "$nin", "$exists"}
ArraySymbols == {"$eq", "$ne", "$in", "$nin", "$exists", "$all", "$size"}
BuiltinScalar == [s \in ScalarSymbols |-> [table |-> "scalar", symbol |-> s]]
BuiltinArray == [s \in ArraySymbols |-> [table |-> "array", symbol |-> s]]
ARRAY_OPERATORS_WITH_ARRAY_ARGUMENT == {"$all", "$in", "$nin"}
BOOLEAN_OPERATORS == {"$and", "$or", "$nor", "$not"}

\* variant: $ne as a plain inequality
ScalarLambda_plain_ne(symbol, col, val, oval) ==
    CASE symbol = "$eq" -> sa_eq(col, val)
      [] symbol = "$ne" -> sa_ne(col, val)
      [] symbol = "$lt" -> Binary("lt", col, val)
      [] symbol = "$lte" -> Binary("le", col, val)
      [] symbol = "$gt" -> Binary("gt", col, val)
      [] symbol = "$gte" -> Binary("ge", col, val)
      [] symbol = "$prefix" -> Binary("startswith", col, val)
      [] symbol = "$in" -> Binary("in", col, val)
      [] symbol = "$nin" -> Binary("notin", col, val)
      [] symbol = "$exists" -> IF Truthy(oval) THEN sa_ne(col, None) ELSE sa_eq(col, None)

\* the lambdas of SCALAR_OPERATORS, applied to a column expression
ScalarLambda(symbol, col, val, oval) ==
    CASE symbol = "$eq" -> sa_eq(col, val)
      [] symbol = "$ne" -> Binary("is_distinct_from", col, val)
      [] symbol = "$lt" -> Binary("lt", col, val)
      [] symbol = "$lte" -> Binary("le", col, val)
      [] symbol = "$gt" -> Binary("gt", col, val)
      [] symbol = "$gte" -> Binary("ge", col, val)
      [] symbol = "$prefix" -> Binary("startswith", col, val)
      [] symbol = "$in" -> Binary("in", col, val)
      [] symbol = "$nin" -> Binary("notin", col, val)
      [] symbol = "$exists" -> IF Truthy(oval) THEN sa_ne(col, None) ELSE sa_eq(col, None)

\* variant: $size compares the length with the value, also for 0
ArrayLambda_plain_size(symbol, col, val, oval) ==
    CASE symbol = "$eq" -> IF _is_array(oval) THEN sa_eq(col, val) ELSE Binary("any_eq", col, val)
      [] symbol = "$ne" -> IF _is_array(oval) THEN sa_ne(col, val) ELSE Binary("all_ne", col, val)
      [] symbol = "$in" -> Binary("overlap", col, val)
      [] symbol = "$nin" -> sa_not_(Binary("overlap", col, val))
      [] symbol = "$exists" -> IF Truthy(oval) THEN sa_ne(col, None) ELSE sa_eq(col, None)
      [] symbol = "$all" -> Binary("contains", col, val)
      [] symbol = "$size" -> sa_eq(array_length(col), val)

\* the lambdas of ARRAY_OPERATORS, applied to a column expression
ArrayLambda(symbol, col, val, oval) ==
    CASE symbol = "$eq" -> IF _is_array(oval) THEN sa_eq(col, val) ELSE Binary("any_eq", col, val)
      [] symbol = "$ne" -> IF _is_array(oval) THEN sa_ne(col, val) ELSE Binary("all_ne", col, val)
      [] symbol = "$in" -> Binary("overlap", col, val)
      [] symbol = "$nin" -> sa_not_(Binary("overlap", col, val))
      [] symbol = "$exists" -> IF Truthy(oval) THEN sa_ne(col, None) ELSE sa_eq(col, None)
      [] symbol = "$all" -> Binary("contains", col, val)
      [] symbol = "$size" -> sa_eq(array_length(col), IF PyEqualsZero(oval) THEN None ELSE val)

\* the same lambdas when the column handed to them is Python's None: a method
\* call on None is an AttributeError, an ordering with None a TypeError, and
\* None == x is decided by Python (by x's reflected operator when x is an
\* SQL expression)
NoneColumnLambda(fn, val, oval) ==
    LET eq == IF IsPyValue(val) THEN PyBool(val = None) ELSE [op |-> "is_null", arg |-> val]
        ne == IF IsPyValue(val) THEN PyBool(val /= None) ELSE [op |-> "is_not_null", arg |-> val]
        attr == Raise("AttributeError", [name |-> fn.symbol, where |-> "NoneType"])
    IN  CASE fn.symbol = "$exists" -> Return(PyBool(~Truthy(oval)))
          [] fn.symbol = "$size" -> Return(ArrayLambda("$size", None, val, oval))
          [] fn.symbol = "$eq" /\ (fn.table = "scalar" \/ _is_array(oval)) -> Return(eq)
          [] fn.symbol = "$ne" /\ fn.table = "array" /\ _is_array(oval) -> Return(ne)
          [] fn.symbol \in {"$lt", "$lte", "$gt", "$gte"} ->
                Raise("TypeError", [name |-> fn.symbol, where |-> "NoneType"])
          [] OTHER -> attr

\* operator_lambda(column_expression, value, condition.value)
ApplyOperator(fn, col, val, oval) ==
    CASE fn.table = "custom" ->
            Return([op |-> "call", fn |-> fn.symbol, col |-> col, val |-> val, oval |-> oval])
      [] fn.table /= "custom" /\ col = None -> NoneColumnLambda(fn, val, oval)
      [] fn.table = "scalar" /\ col /= None -> Return(ScalarLambda(fn.symbol, col, val, oval))
      [] fn.table = "array" /\ col /= None -> Return(ArrayLambda(fn.symbol, col, val, oval))

QueryObjectError(msg, operator) == Raise("QueryObjectError", [msg |-> msg, operator |-> operator])

_validate_operator_argument(condition) ==
    IF condition.operator \in ARRAY_OPERATORS_WITH_ARRAY_ARGUMENT /\ ~_is_array(condition.value)
    THEN QueryObjectError("argument must be an array", condition.operator)
    ELSE Return(None)

\* variant: the scalar table whatever the column
_get_operator_lambda_scalar_only(operator, use_array, SO, AO) ==
    IF operator \in DOMAIN SO THEN Return(SO[operator])
    ELSE QueryObjectError("Unsupported operator", operator)

_get_operator_lambda(operator, use_array, SO, AO) ==
    IF use_array
    THEN (IF operator \in DOMAIN AO THEN Return(AO[operator])
          ELSE QueryObjectError("Unsupported operator", operator))
    ELSE (IF operator \in DOMAIN SO THEN Return(SO[operator])
          ELSE QueryObjectError("Unsupported operator", operator))

\* variant: the operator is looked up before its argument is validated
use_operator_lookup_first(condition, column_expression, value, SO, AO) ==
    LET valid == _validate_operator_argument(condition)
        operator_lambda ==
            _get_operator_lambda(condition.operator, Truthy(condition.is_array), SO, AO)
    IN  IF Raised(operator_lambda) THEN [out |-> operator_lambda, calls |-> <<>>]
        ELSE IF Raised(valid) THEN [out |-> valid, calls |-> <<>>]
        ELSE [out |-> ApplyOperator(operator_lambda.value, column_expression, value,
                                    condition.value),
              calls |-> <<[fn |-> operator_lambda.value, condition |-> condition,
                           col |-> column_expression, val |-> value,
                           oval |-> condition.value]>>]

\* out: what use_operator returns or raises; calls: the operator functions it
\* invoked, each with the arguments handed to it
use_operator(condition, column_expression, value, SO, AO) ==
    LET valid == _validate_operator_argument(condition)
        operator_lambda ==
            _get_operator_lambda(condition.operator, Truthy(condition.is_array), SO, AO)
    IN  IF Raised(valid) THEN [out |-> valid, calls |-> <<>>]
        ELSE IF Raised(operator_lambda) THEN [out |-> operator_lambda, calls |-> <<>>]
        ELSE [out |-> ApplyOperator(operator_lambda.value, column_expression, value,
                                    condition.value),
              calls |-> <<[fn |-> operator_lambda.value, condition |-> condition,
                           col |-> column_expression, val |-> value,
                           oval |-> condition.value]>>]

\* the type a JSON column is compared as: the type of the Python literal
coerce_compared_value(val) == IF IsPyValue(val) THEN val.t ELSE "expression"

_compile_field_condition(condition, SO, AO) ==
    \* line 37 passes (self.target_Model, condition) to the parameters
    \* (expression, Model) and assigns what the call returns
    LET r == resolve_filtering_field_expression(target_Model, condition, "filter")
    IN  IF Raised(r.out) THEN [out |-> r.out, node |-> condition, calls |-> <<>>]
        ELSE
        LET c1 == [condition EXCEPT !.property = r.out.value]
            col == c1.property
            val == c1.value
            case1 == Truthy(c1.is_array) /\ _is_array(val)
            case2 == Truthy(c1.is_json)
            val1 == IF case1
                    THEN [op |-> "cast", arg |-> [op |-> "array", arg |-> val], to |-> "ARRAY"]
                    ELSE val
            col1 == IF case2
                    THEN [op |-> "cast", arg |-> col, to |-> coerce_compared_value(val1)]
                    ELSE col
        IN  IF (case1 \/ case2) /\ col = None
            THEN [out |-> Raise("AttributeError", [name |-> "type", where |-> "NoneType"]),
                  node |-> c1, calls |-> <<>>]
            ELSE LET u == use_operator(c1, col1, val1, SO, AO)
                 IN  [out |-> u.out, node |-> c1, calls |-> u.calls]

\* [self._compile_condition(c) for c in clauses]: the clauses are compiled in
\* order up to the first one that raises
CompileLoop(results, elements) ==
    LET k == FirstRaise([i \in 1..Len(results) |-> results[i].out])
        n == IF k = 0 THEN Len(results) ELSE k
        RECURSIVE Calls(_)
        Calls(i) == IF i = 0 THEN <<>> ELSE Calls(i - 1) \o results[i].calls
    IN  [out |-> IF k = 0 THEN Return([i \in 1..Len(results) |-> results[i].out.value])
                 ELSE results[k].out,
         nodes |-> [i \in 1..Len(elements) |-> IF i <= n THEN results[i].node ELSE elements[i]],
         calls |-> Calls(n)]

\* variant: a disjunction of no clause is false
BooleanConnective_empty_or_false(operator, criteria) ==
    IF operator \in {"$or", "$nor"}
    THEN (IF Len(criteria) = 0 THEN sa_false ELSE sa_or_(criteria))
    ELSE sa_and_(criteria)

\* sa.or_(*criteria) for $or and $nor, sa.and_(*criteria) for $and
BooleanConnective(operator, criteria) ==
    IF operator \in {"$or", "$nor"} THEN sa_or_(criteria) ELSE sa_and_(criteria)

RECURSIVE _compile_condition(_, _, _)
_compile_boolean_conditions(condition, SO, AO) ==
    LET loop == CompileLoop(
            [i \in 1..Len(condition.clauses) |->
                _compile_condition(condition.clauses[i], SO, AO)],
            condition.clauses)
        node == [condition EXCEPT !.clauses = loop.nodes]
        criteria == loop.out.value
        cc == BooleanConnective(condition.operator, criteria)
        grouped == IF Len(criteria) > 1 THEN self_group(cc) ELSE cc
    IN  IF Raised(loop.out) THEN [out |-> loop.out, node |-> node, calls |-> loop.calls]
        ELSE IF condition.operator = "$not"
        THEN [out |-> Return(sa_not_(sql_anded_together(criteria))),
              node |-> node, calls |-> loop.calls]
        ELSE IF condition.operator \notin {"$or", "$nor", "$and"}
        THEN [out |-> Raise("NotImplementedError",
                            [name |-> condition.operator, where |-> "boolean operator"]),
              node |-> node, calls |-> loop.calls]
        ELSE IF condition.operator = "$nor"
        THEN [out |-> Return(sa_not_(grouped)), node |-> node, calls |-> loop.calls]
        ELSE [out |-> Return(grouped), node |-> node, calls |-> loop.calls]

_compile_condition(condition, SO, AO) ==
    CASE condition.kind = "FieldExpression" -> _compile_field_condition(condition, SO, AO)
      [] condition.kind = "BooleanExpression" -> _compile_boolean_conditions(condition, SO, AO)
      [] OTHER -> [out |-> Raise("NotImplementedError",
                                 [name |-> condition.kind, where |-> "condition"]),
                   node |-> condition, calls |-> <<>>]

\* FilterOperation.apply_to_statement: stmt.filter(*criteria); the value is the
\* sequence of criteria added to the statement's WHERE
FilterOperation_apply_to_statement(q, SO, AO) ==
    LET loop == CompileLoop(
            [i \in 1..Len(q.filter.conditions) |->
                _compile_condition(q.filter.conditions[i], SO, AO)],
            q.filter.conditions)
    IN  [out |-> loop.out, node |-> [q EXCEPT !.filter.conditions = loop.nodes],
         calls |-> loop.calls]

add_scalar_operator(SO, name, callable) ==
    [k \in DOMAIN SO \cup {name} |-> IF k = name THEN callable ELSE SO[k]]

\* variant: the table is replaced by the built-in one plus the new entry
add_array_operator_resetting(AO, name, callable) ==
    [k \in DOMAIN BuiltinArray \cup {name} |-> IF k = name THEN callable ELSE BuiltinArray[k]]

add_array_operator(AO, name, callable) ==
    [k \in DOMAIN AO \cup {name} |-> IF k = name THEN callable ELSE AO[k]]

(***************************************************************************)
(* operations/sort.py                                                      *)
(***************************************************************************)
\* jessiql.query_object.resolve_sorting_field_with_direction(Model, field, where):
\* the column of the field, wrapped in its direction
resolve_sorting_field_with_direction(Model, field, where) ==
    LET attribute == resolve_column_by_name(field.name, Model, where)
    IN  IF Raised(attribute) THEN attribute
        ELSE Return([op |-> IF field.desc THEN "desc" ELSE "asc", arg |-> attribute.value])

\* variant: a field name is compiled once, at its first place
compile_columns_distinct(q) ==
    LET all == q.sort.fields
        RECURSIVE Distinct(_)
        Distinct(i) ==
            IF i = 0 THEN <<>>
            ELSE IF \E j \in 1..(i - 1) : all[j].name = all[i].name THEN Distinct(i - 1)
            ELSE Append(Distinct(i - 1), all[i])
        fields == Distinct(Len(all))
        outs == [i \in 1..Len(fields) |->
                    resolve_sorting_field_with_direction(target_Model, fields[i], "sort")]
        k == FirstRaise(outs)
    IN  IF k = 0 THEN Return([i \in 1..Len(outs) |-> outs[i].value]) ELSE outs[k]

compile_columns(q) ==
    LET outs == [i \in 1..Len(q.sort.fields) |->
                    resolve_sorting_field_with_direction(target_Model, q.sort.fields[i], "sort")]
        k == FirstRaise(outs)
    IN  IF k = 0 THEN Return([i \in 1..Len(outs) |-> outs[i].value]) ELSE outs[k]

\* SortOperation.apply_to_statement: stmt.order_by(*columns); the value is the
\* statement's ORDER BY list
SortOperation_apply_to_statement(q) == compile_columns(q)

(***************************************************************************)
(* What a compiled predicate selects.  A row gives each column a value;    *)
(* None is NULL.  A predicate evaluates to "T", "F" or "N" (unknown); "E" *)
(* is an empty clause list, which renders as nothing and restricts         *)
(* nothing, and "X" a statement the database rejects.  Eval is defined on  *)
(* the predicates the properties below evaluate.                           *)
(***************************************************************************)
SqlError == [t |-> "error"]

RECURSIVE SqlValue(_, _)
SqlValue(e, row) ==
    CASE IsPyValue(e) -> e
      [] ~IsPyValue(e) /\ "kind" \in DOMAIN e -> row[e.name]
      [] ~IsPyValue(e) /\ "op" \in DOMAIN e /\ e.op \in {"cast", "array"} -> SqlValue(e.arg, row)
      [] ~IsPyValue(e) /\ "op" \in DOMAIN e /\ e.op = "array_length" ->
            LET a == SqlValue(e.arg, row)
            IN  IF a = None THEN None
                ELSE IF a.t /= "list" THEN SqlError
                ELSE IF Len(a.v) = 0 THEN None
                ELSE PyInt(Len(a.v))

Not3(v) == CASE v = "T" -> "F" [] v = "F" -> "T" [] v = "N" -> "N" [] OTHER -> "X"

And3(vs) ==
    IF \E i \in 1..Len(vs) : vs[i] = "X" THEN "X"
    ELSE IF \E i \in 1..Len(vs) : vs[i] = "F" THEN "F"
    ELSE IF \E i \in 1..Len(vs) : vs[i] = "N" THEN "N"
    ELSE "T"

Or3(vs) ==
    IF \E i \in 1..Len(vs) : vs[i] = "X" THEN "X"
    ELSE IF \E i \in 1..Len(vs) : vs[i] = "T" THEN "T"
    ELSE IF \E i \in 1..Len(vs) : vs[i] = "N" THEN "N"
    ELSE "F"

Compare(op, l, r) ==
    IF l = SqlError \/ r = SqlError THEN "X"
    ELSE IF l = None \/ r = None THEN "N"
    ELSE IF l.t /= r.t THEN "X"
    ELSE IF op = "eq" THEN (IF l = r THEN "T" ELSE "F")
    ELSE IF op = "ne" THEN (IF l /= r THEN "T" ELSE "F")
    ELSE IF l.t /= "int" THEN "X"
    ELSE IF (CASE op = "lt" -> l.v < r.v [] op = "le" -> l.v <= r.v
               [] op = "gt" -> l.v > r.v [] op = "ge" -> l.v >= r.v)
         THEN "T" ELSE "F"

RECURSIVE Eval(_, _)
Eval(x, row) ==
    LET e == Coerce(x)
    IN  CASE e.op = "true" -> "T"
          [] e.op = "false" -> "F"
          [] e.op \in {"and", "or"} ->
                LET vs == SelectSeq([i \in 1..Len(e.args) |-> Eval(e.args[i], row)],
                                    LAMBDA v : v /= "E")
                IN  IF Len(vs) = 0 THEN "E"
                    ELSE IF e.op = "and" THEN And3(vs) ELSE Or3(vs)
          [] e.op = "not" -> Not3(Eval(e.arg, row))
          [] e.op = "group" ->
                LET v == Eval(e.arg, row) IN IF v = "E" THEN "X" ELSE v
          [] e.op = "is_null" ->
                LET v == SqlValue(e.arg, row)
                IN  IF v = SqlError THEN "X" ELSE IF v = None THEN "T" ELSE "F"
          [] e.op = "is_not_null" ->
                LET v == SqlValue(e.arg, row)
                IN  IF v = SqlError THEN "X" ELSE IF v = None THEN "F" ELSE "T"
          [] e.op = "is_distinct_from" ->
                LET l == SqlValue(e.l, row)
                    r == SqlValue(e.r, row)
                IN  IF l = SqlError \/ r = SqlError THEN "X"
                    ELSE IF l /= None /\ r /= None /\ l.t /= r.t THEN "X"
                    ELSE IF l /= r THEN "T" ELSE "F"
          [] e.op \in {"eq", "ne", "lt", "le", "gt", "ge"} ->
                Compare(e.op, SqlValue(e.l, row), SqlValue(e.r, row))

\* the row is selected by a statement filtered with the predicate
Matches(e, row) == Eval(e, row) \in {"T", "E"}

(***************************************************************************)
(* Inputs.                                                                 *)
(***************************************************************************)
Ints == 0..MaxInt
IntLists == {[i \in 1..k |-> i] : k \in 0..MaxInt}
Literals ==
    {None, PyBool(TRUE)} \cup {PyInt(n) : n \in Ints} \cup {PyList(s) : s \in {<<>>, <<1>>}}
Rows ==
    [price : {None} \cup {PyInt(n) : n \in Ints},
     tags : {None} \cup {PyList(s) : s \in IntLists},
     meta : {None, PyInt(1)}]

SeqsUpTo(S, n) == UNION {[1..k -> S] : k \in 0..n}

CustomSymbol == "$search"
OperatorSymbols == ScalarSymbols \cup ArraySymbols \cup {CustomSymbol}
RegistrableNames == {CustomSymbol, "$all"}
CustomCallables == {[table |-> "custom", symbol |-> "search_fn"]}

\* field conditions as resolve_filter leaves them
ResolvedConditions ==
    {resolve_filtering_field_expression(FieldExpression(f, o, v), target_Model, "filter").node :
        f \in ColumnNames, o \in OperatorSymbols, v \in Literals}

\* the column and value expressions _compile_field_condition derives for a
\* resolved condition
ColumnExpressions(c) ==
    {c.property} \cup
    (IF Truthy(c.is_json)
     THEN {[op |-> "cast", arg |-> c.property, to |-> coerce_compared_value(c.value)]}
     ELSE {})
ValueExpressions(c) ==
    {c.value} \cup
    (IF Truthy(c.is_array) /\ _is_array(c.value)
     THEN {[op |-> "cast", arg |-> [op |-> "array", arg |-> c.value], to |-> "ARRAY"]}
     ELSE {})

EmptyQuery ==
    [select |-> [fields |-> <<>>, relations |-> <<>>],
     sort |-> [fields |-> <<>>],
     filter |-> [conditions |-> <<>>]]

(***************************************************************************)
(* The operator registry and use_operator.                                 *)
(***************************************************************************)
Init ==
    /\ SCALAR_OPERATORS = BuiltinScalar
    /\ ARRAY_OPERATORS = BuiltinArray
    /\ query = EmptyQuery
    /\ last = [op |-> "init"]

AddScalarOperator ==
    \E name \in RegistrableNames, callable \in CustomCallables :
        /\ SCALAR_OPERATORS' = add_scalar_operator(SCALAR_OPERATORS, name, callable)
        /\ last' = [op |-> "add_scalar_operator", name |-> name, callable |-> callable,
                    scalar |-> SCALAR_OPERATORS, array |-> ARRAY_OPERATORS]
        /\ UNCHANGED <<ARRAY_OPERATORS, query>>

AddArrayOperator ==
    \E name \in RegistrableNames, callable \in CustomCallables :
        /\ ARRAY_OPERATORS' = add_array_operator(ARRAY_OPERATORS, name, callable)
        /\ last' = [op |-> "add_array_operator", name |-> name, callable |-> callable,
                    scalar |-> SCALAR_OPERATORS, array |-> ARRAY_OPERATORS]
        /\ UNCHANGED <<SCALAR_OPERATORS, query>>

UseOperator ==
    \E c \in ResolvedConditions :
      \E col \in ColumnExpressions(c), val \in ValueExpressions(c) :
        LET u == use_operator(c, col, val, SCALAR_OPERATORS, ARRAY_OPERATORS)
        IN  /\ last' = [op |-> "use_operator", condition |-> c, column_expression |-> col,
                        value |-> val, out |-> u.out, calls |-> u.calls,
                        scalar |-> SCALAR_OPERATORS, array |-> ARRAY_OPERATORS]
            /\ UNCHANGED <<SCALAR_OPERATORS, ARRAY_OPERATORS, query>>

Next == AddScalarOperator \/ AddArrayOperator \/ UseOperator

Spec == Init /\ [][Next]_vars

(***************************************************************************)
(* A Query Object that is resolved, filtered and sorted.                   *)
(***************************************************************************)
OtherUnknownName == "missing"
KnownLeaf == FieldExpression("price", "$eq", PyInt(1))
UnknownLeaf == FieldExpression(UnknownName, "$eq", PyInt(1))
MissingLeaf == FieldExpression(OtherUnknownName, "$size", PyInt(0))
FalseGroup == BooleanExpression("$not", <<>>)
TrueGroup == BooleanExpression("$not", <<FalseGroup>>)
ClausePool ==
    {KnownLeaf, UnknownLeaf, TrueGroup}
        \cup {BooleanExpression(o, <<>>) : o \in BOOLEAN_OPERATORS}
TopConditions ==
    {BooleanExpression(o, cs) : o \in BOOLEAN_OPERATORS, cs \in SeqsUpTo(ClausePool, MaxClauses)}
        \cup {KnownLeaf, UnknownLeaf, FieldExpression("tags", "$size", PyInt(0)),
              FieldExpression("meta", "$search", PyInt(1)),
              BooleanExpression("$xor", <<TrueGroup>>)}

FilterQueries ==
    {[EmptyQuery EXCEPT !.filter.conditions = cs] :
        cs \in {<<c>> : c \in TopConditions}
                 \cup {<<a, b>> : a \in {TrueGroup, KnownLeaf}, b \in {FalseGroup, KnownLeaf}}}

SortFieldPool ==
    {SortingField("price", FALSE), SortingField("price", TRUE),
     SortingField("tags", TRUE), SortingField(UnknownName, FALSE)}
SortQueries ==
    {[EmptyQuery EXCEPT !.sort.fields = fs] : fs \in SeqsUpTo(SortFieldPool, MaxSort)}

Nested(leaf) ==
    BooleanExpression("$and",
        <<KnownLeaf, BooleanExpression("$or", <<BooleanExpression("$not", <<leaf>>)>>)>>)
ResolveQueries ==
    {[select |-> [fields |-> [i \in 1..Len(fs) |-> SelectedField(fs[i])],
                  relations |-> [i \in 1..Len(rs) |-> SelectedRelation(rs[i])]],
      sort |-> [fields |-> [i \in 1..Len(ss) |-> SortingField(ss[i], FALSE)]],
      filter |-> [conditions |-> cs]] :
        fs \in {<<>>, <<"price", "meta">>, <<"price", UnknownName>>, <<OtherUnknownName, "tags">>},
        rs \in {<<>>, <<"articles", "author">>, <<"pending">>, <<UnknownName>>, <<"price">>},
        ss \in {<<>>, <<"price">>, <<"tags", UnknownName, OtherUnknownName>>},
        cs \in {<<>>, <<KnownLeaf>>, <<UnknownLeaf>>, <<Nested(KnownLeaf)>>,
                <<Nested(MissingLeaf), UnknownLeaf>>,
                <<KnownLeaf, BooleanExpression("$nor", <<TrueGroup, Nested(UnknownLeaf)>>)>>}}

InitQuery ==
    /\ SCALAR_OPERATORS = BuiltinScalar
    /\ ARRAY_OPERATORS = BuiltinArray
    /\ query \in FilterQueries \cup SortQueries \cup ResolveQueries
    /\ last = [op |-> "init"]

\* resolve_query_object(query, Model): the nodes of the query are resolved in place
ResolveQuery ==
    LET r == resolve_query_object(query, target_Model)
    IN  /\ query' = r.node
        /\ last' = [op |-> "resolve_query_object", before |-> query, out |-> r.out]
        /\ UNCHANGED <<SCALAR_OPERATORS, ARRAY_OPERATORS>>

\* FilterOperation(query, target_Model).apply_to_statement(stmt)
ApplyFilter ==
    LET r == FilterOperation_apply_to_statement(query, SCALAR_OPERATORS, ARRAY_OPERATORS)
    IN  /\ query' = r.node
        /\ last' = [op |-> "filter", before |-> query, out |-> r.out, calls |-> r.calls]
        /\ UNCHANGED <<SCALAR_OPERATORS, ARRAY_OPERATORS>>

\* SortOperation(query, target_Model).apply_to_statement(stmt)
ApplySort ==
    /\ last' = [op |-> "sort", before |-> query, out |-> SortOperation_apply_to_statement(query)]
    /\ UNCHANGED <<SCALAR_OPERATORS, ARRAY_OPERATORS, query>>

NextQuery == ResolveQuery \/ ApplyFilter \/ ApplySort

SpecQuery == InitQuery /\ [][NextQuery]_vars

(***************************************************************************)
(* Properties of use_operator and of the registry (under Spec).            *)
(***************************************************************************)
IsUse == last.op = "use_operator"
\* the table the column's value-shape selects: the array table for an array
\* column, the scalar table for a scalar or a structured one
ShapeTable(c) ==
    IF ColumnShape[c.field] = "array" THEN ARRAY_OPERATORS ELSE SCALAR_OPERATORS
UnsupportedOperator(c) == QueryObjectError("Unsupported operator", c.operator)
ValueShapeError(c) == QueryObjectError("argument must be an array", c.operator)
NeedsArrayArgument(c) ==
    c.operator \in ARRAY_OPERATORS_WITH_ARRAY_ARGUMENT /\ ~_is_array(c.value)
InvokedFrom(table) ==
    /\ Len(last.calls) = 1
    /\ last.calls[1].fn = table[last.condition.operator]
    /\ last.calls[1].col = last.column_expression
    /\ last.calls[1].val = last.value
    /\ last.calls[1].oval = last.condition.value

\* C4, as claimed: the table is selected by the column's value-shape alone, and an
\* operator that is not in the selected table always ends in the 'Unsupported
\* operator' error, whatever the literal, with no operator function invoked.
C4_AbsentOperatorIsAlwaysUnsupported ==
    IsUse =>
        LET c == last.condition
        IN  /\ c.operator \notin DOMAIN ShapeTable(c) =>
                 last.out = UnsupportedOperator(c) /\ last.calls = <<>>
            /\ (c.operator \in DOMAIN ShapeTable(c) /\ ~NeedsArrayArgument(c)) =>
                 InvokedFrom(ShapeTable(c))

\* C4, amended: the table is selected by the column's value-shape alone; an
\* operator that is not in the selected table never reaches an operator function
\* and ends in the 'Unsupported operator' error, except that $all, $in and $nin
\* with a literal that is not array-shaped end in the 'argument must be an array'
\* error, which is raised first.
C4_AbsentOperatorFails ==
    IsUse =>
        LET c == last.condition
        IN  /\ c.operator \notin DOMAIN ShapeTable(c) =>
                 /\ last.calls = <<>>
                 /\ last.out = IF NeedsArrayArgument(c) THEN ValueShapeError(c)
                                ELSE UnsupportedOperator(c)
            /\ (c.operator \in DOMAIN ShapeTable(c) /\ ~NeedsArrayArgument(c)) =>
                 InvokedFrom(ShapeTable(c))

C4_Witness ==
    /\ IsUse
    /\ last.condition.field = "meta"
    /\ last.condition.operator = "$size"
    /\ _is_array(last.condition.value)
    /\ last.out = UnsupportedOperator(last.condition)
    /\ last.calls = <<>>

\* C5: $all, $in and $nin with a literal that is not array-shaped end in the
\* 'argument must be an array' error on a column of any shape, before any
\* operator function is invoked; with an array-shaped literal that error is never
\* raised.
C5_ArrayArgumentRequired ==
    (IsUse /\ last.condition.operator \in ARRAY_OPERATORS_WITH_ARRAY_ARGUMENT) =>
        IF _is_array(last.condition.value)
        THEN last.out /= ValueShapeError(last.condition)
        ELSE last.out = ValueShapeError(last.condition) /\ last.calls = <<>>

C5_Witness ==
    /\ IsUse
    /\ last.condition.operator = "$all"
    /\ ColumnShape[last.condition.field] = "json"
    /\ last.condition.value = PyInt(1)
    /\ last.out = ValueShapeError(last.condition)
    /\ last.calls = <<>>

\* a $size condition on the array column, applied to the column itself
IsSizeOnArray ==
    /\ IsUse
    /\ last.condition.field = "tags"
    /\ last.condition.operator = "$size"
    /\ last.condition.value.t = "int"
    /\ last.column_expression = ColumnProperty("tags")
    /\ last.value = last.condition.value

\* C7: on an array column {$size: 0} selects exactly the rows whose array is NULL
\* or empty, and {$size: n}, n /= 0, exactly the rows whose array has n elements.
C7_SizeZeroMatchesNullAndEmpty ==
    IsSizeOnArray =>
        /\ ~Raised(last.out)
        /\ \A row \in Rows :
              Matches(last.out.value, row) <=>
                  IF last.condition.value.v = 0
                  THEN row.tags = None \/ row.tags = PyList(<<>>)
                  ELSE row.tags /= None /\ Len(row.tags.v) = last.condition.value.v

C7_Witness ==
    /\ IsSizeOnArray
    /\ last.condition.value = PyInt(0)
    /\ ~Raised(last.out)
    /\ \E r1, r2, r3 \in Rows :
          /\ r1.tags = None /\ Matches(last.out.value, r1)
          /\ r2.tags = PyList(<<>>) /\ Matches(last.out.value, r2)
          /\ r3.tags = PyList(<<1>>) /\ ~Matches(last.out.value, r3)

\* a $ne condition on the scalar column, applied to the column itself
IsNeOnScalar ==
    /\ IsUse
    /\ last.condition.field = "price"
    /\ last.condition.operator = "$ne"
    /\ last.condition.value.t \in {"int", "None"}
    /\ last.column_expression = ColumnProperty("price")
    /\ last.value = last.condition.value

\* C8: on a scalar column {$ne: v} is true exactly on the rows whose value differs
\* from v, NULL counting as a value, and is never unknown.
C8_NeIsDistinctFrom ==
    IsNeOnScalar =>
        /\ ~Raised(last.out)
        /\ \A row \in Rows :
              Eval(last.out.value, row) =
                  IF row.price /= last.condition.value THEN "T" ELSE "F"

C8_Witness ==
    /\ IsNeOnScalar
    /\ last.condition.value = PyInt(1)
    /\ ~Raised(last.out)
    /\ \E r1, r2, r3 \in Rows :
          /\ r1.price = None /\ Eval(last.out.value, r1) = "T"
          /\ r2.price = PyInt(2) /\ Eval(last.out.value, r2) = "T"
          /\ r3.price = PyInt(1) /\ Eval(last.out.value, r3) = "F"

\* the table after a registration: the entry of the name is the callable and
\* every other entry is as before
Registered(table, before, name, callable) ==
    /\ DOMAIN table = DOMAIN before \cup {name}
    /\ table[name] = callable
    /\ \A k \in DOMAIN before \ {name} : table[k] = before[k]

\* C10: a registration changes the entry of its own symbol in its own table and
\* nothing else; no built-in entry is ever removed; a compilation changes neither
\* table and finds, for a column of a shape, what that shape's table holds under
\* the symbol.
C10_RegistrationIsAdditive ==
    /\ last.op = "add_scalar_operator" =>
          /\ Registered(SCALAR_OPERATORS, last.scalar, last.name, last.callable)
          /\ ARRAY_OPERATORS = last.array
    /\ last.op = "add_array_operator" =>
          /\ Registered(ARRAY_OPERATORS, last.array, last.name, last.callable)
          /\ SCALAR_OPERATORS = last.scalar
    /\ \A s \in ScalarSymbols :
          s \in DOMAIN SCALAR_OPERATORS
          /\ (SCALAR_OPERATORS[s] = BuiltinScalar[s] \/ SCALAR_OPERATORS[s] \in CustomCallables)
    /\ \A s \in ArraySymbols :
          s \in DOMAIN ARRAY_OPERATORS
          /\ (ARRAY_OPERATORS[s] = BuiltinArray[s] \/ ARRAY_OPERATORS[s] \in CustomCallables)
    /\ IsUse =>
          /\ SCALAR_OPERATORS = last.scalar /\ ARRAY_OPERATORS = last.array
          /\ (last.condition.operator \in DOMAIN ShapeTable(last.condition)
              /\ ~NeedsArrayArgument(last.condition)) => InvokedFrom(ShapeTable(last.condition))

C10_Witness ==
    /\ IsUse
    /\ last.condition.operator = CustomSymbol
    /\ ColumnShape[last.condition.field] = "array"
    /\ CustomSymbol \notin DOMAIN SCALAR_OPERATORS
    /\ "$all" \in DOMAIN SCALAR_OPERATORS
    /\ Len(last.calls) = 1
    /\ last.calls[1].fn \in CustomCallables
    /\ ARRAY_OPERATORS["$size"] = BuiltinArray["$size"]

(***************************************************************************)
(* Properties of the query pipeline (under SpecQuery).                     *)
(***************************************************************************)
IsFilter == last.op = "filter"
\* the statement was filtered by one condition, which compiled
OneCondition == IsFilter /\ Len(last.before.filter.conditions) = 1 /\ ~Raised(last.out)
TheCondition == last.before.filter.conditions[1]
TheCriterion == last.out.value[1]
IsNotGroup ==
    /\ OneCondition
    /\ TheCondition.kind = "BooleanExpression"
    /\ TheCondition.operator = "$not"

\* c1 .. cn: the clauses of a group, each compiled on its own
CompiledClauses(group) ==
    [i \in 1..Len(group.clauses) |->
        _compile_condition(group.clauses[i], SCALAR_OPERATORS, ARRAY_OPERATORS).out.value]
Values(cs, row) == [i \in 1..Len(cs) |-> Eval(cs[i], row)]
Definite(cs, row) == \A i \in 1..Len(cs) : Eval(cs[i], row) \in {"T", "F", "N"}
\* NOT(c1) OR ... OR NOT(cn)
PerClauseForm(cs) == sa_or_([i \in 1..Len(cs) |-> sa_not_(cs[i])])

\* C1, as claimed: a $not group is NOT(c1 AND ... AND cn) in value, and it is not
\* the expression NOT(c1) OR ... OR NOT(cn).
C1_NotIsNeverThePerClauseForm ==
    IsNotGroup =>
        LET cs == CompiledClauses(TheCondition)
        IN  /\ \A row \in Rows :
                  Definite(cs, row) => Eval(TheCriterion, row) = Not3(And3(Values(cs, row)))
            /\ (\A row \in Rows : Definite(cs, row)) => TheCriterion /= PerClauseForm(cs)

\* C1, amended: a $not group is NOT(c1 AND ... AND cn) in value for every truth
\* assignment of its clauses; with no clause it is false, where the per-clause
\* form is an empty disjunction; with one clause or more the per-clause form
\* NOT(c1) OR ... OR NOT(cn) has the same value.
C1_NotIsNegatedConjunction ==
    IsNotGroup =>
        LET cs == CompiledClauses(TheCondition)
        IN  /\ \A row \in Rows :
                  Definite(cs, row) =>
                      /\ Eval(TheCriterion, row) = Not3(And3(Values(cs, row)))
                      /\ Len(cs) >= 1 => Eval(PerClauseForm(cs), row) = Eval(TheCriterion, row)
            /\ Len(cs) = 0 => TheCriterion = sa_false /\ IsEmptyClauseList(PerClauseForm(cs))

C1_Witness ==
    /\ IsNotGroup
    /\ TheCondition.clauses = <<TrueGroup, FalseGroup>>
    /\ CompiledClauses(TheCondition) = <<sa_true, sa_false>>
    /\ \A row \in Rows : Eval(TheCriterion, row) = "T"

\* C2, as claimed: compiling a field condition whose field the catalog knows
\* leaves the catalog's descriptor on the node and hands that descriptor (cast
\* for a structured column), never None, to the operator function; the only
\* errors are those of the operator and of its argument.
C2_DescriptorPresentWhenInvoked ==
    (IsFilter /\ Len(last.before.filter.conditions) = 1
        /\ last.before.filter.conditions[1].kind = "FieldExpression"
        /\ last.before.filter.conditions[1].field \in ColumnNames) =>
        LET c == last.before.filter.conditions[1]
            descriptor == ColumnAttribute(c.field).property
        IN  /\ Raised(last.out) => last.out.exc = "QueryObjectError"
            /\ query.filter.conditions[1].property = descriptor
            /\ \A i \in 1..Len(last.calls) :
                  /\ last.calls[i].condition.property = descriptor
                  /\ last.calls[i].col /= None
                  /\ last.calls[i].col \in ColumnExpressions(last.calls[i].condition)

\* C3: an $and group and an $or group with no clause compile to a predicate
\* that every row satisfies.
C3_EmptyGroupSelectsEveryRow ==
    (IsFilter /\ Len(last.before.filter.conditions) = 1
        /\ last.before.filter.conditions[1].kind = "BooleanExpression"
        /\ last.before.filter.conditions[1].operator \in {"$and", "$or"}
        /\ last.before.filter.conditions[1].clauses = <<>>) =>
        /\ ~Raised(last.out)
        /\ Len(last.out.value) = 1
        /\ \A row \in Rows : Matches(last.out.value[1], row)

C3_Witness ==
    /\ OneCondition
    /\ TheCondition = BooleanExpression("$or", <<>>)
    /\ \A row \in Rows : Matches(TheCriterion, row)

\* the names a query refers to, in the order resolve_query_object looks them up,
\* each with the tag of its section
RECURSIVE FilterFields(_)
FilterFields(node) ==
    IF node.kind = "FieldExpression" THEN <<node.field>>
    ELSE LET RECURSIVE Upto(_)
             Upto(i) == IF i = 0 THEN <<>> ELSE Upto(i - 1) \o FilterFields(node.clauses[i])
         IN  Upto(Len(node.clauses))
References(q) ==
    LET RECURSIVE Upto(_)
        Upto(i) == IF i = 0 THEN <<>>
                   ELSE Upto(i - 1) \o FilterFields(q.filter.conditions[i])
        leaves == Upto(Len(q.filter.conditions))
    IN  [i \in 1..Len(q.select.fields) |->
            [name |-> q.select.fields[i].name, where |-> "select", relation |-> FALSE]]
        \o [i \in 1..Len(q.select.relations) |->
            [name |-> q.select.relations[i].name, where |-> "select", relation |-> TRUE]]
        \o [i \in 1..Len(q.sort.fields) |->
            [name |-> q.sort.fields[i].name, where |-> "sort", relation |-> FALSE]]
        \o [i \in 1..Len(leaves) |-> [name |-> leaves[i], where |-> "filter", relation |-> FALSE]]
Unknown(ref) ==
    IF ref.relation THEN ref.name \notin RelationNames ELSE ref.name \notin ColumnNames
NoCardinality(ref) ==
    ref.relation /\ ref.name \in RelationNames /\ RelationUselist[ref.name] = None

\* C6: resolving a query that refers to a name the catalog does not know raises
\* SchemaResolutionError with that name and the tag of the section the name is in
\* ('select', 'sort', or 'filter' at any depth): the error is that of the first
\* such reference, unless a relation of unknown cardinality comes before it.
C6_UnknownNameCarriesSectionTag ==
    last.op = "resolve_query_object" =>
        LET refs == References(last.before)
            bad == {i \in 1..Len(refs) : Unknown(refs[i]) \/ NoCardinality(refs[i])}
            first == CHOOSE i \in bad : \A j \in bad : i <= j
        IN  IF bad = {} THEN last.out = Return(None)
            ELSE IF Unknown(refs[first])
            THEN last.out = SchemaResolutionError(refs[first].name, refs[first].where)
            ELSE last.out.exc = "AssertionError"

C6_Witness ==
    /\ last.op = "resolve_query_object"
    /\ last.before.filter.conditions = <<Nested(MissingLeaf), UnknownLeaf>>
    /\ Len(last.before.select.fields) = 2
    /\ Len(last.before.select.relations) = 2
    /\ Len(last.before.sort.fields) = 1
    /\ last.out = SchemaResolutionError(OtherUnknownName, "filter")

\* C9: the ORDER BY list has one entry for each sorting field, in the order of
\* the fields: entry i is the column of field i in the direction of field i, a
\* name given twice has two entries.
C9_SortKeepsDeclarationOrder ==
    last.op = "sort" =>
        LET fields == last.before.sort.fields
            unknown == {i \in 1..Len(fields) : fields[i].name \notin ColumnNames}
        IN  IF unknown = {}
            THEN /\ ~Raised(last.out)
                 /\ Len(last.out.value) = Len(fields)
                 /\ \A i \in 1..Len(fields) :
                       /\ last.out.value[i].arg = ColumnAttribute(fields[i].name)
                       /\ last.out.value[i].op = (IF fields[i].desc THEN "desc" ELSE "asc")
            ELSE \E i \in unknown :
                    /\ \A j \in unknown : i <= j
                    /\ last.out = SchemaResolutionError(fields[i].name, "sort")

C9_Witness ==
    /\ last.op = "sort"
    /\ last.before.sort.fields =
          <<SortingField("price", FALSE), SortingField("tags", TRUE), SortingField("price", TRUE)>>
    /\ ~Raised(last.out)
    /\ Len(last.out.value) = 3
    /\ last.out.value[1].arg = last.out.value[3].arg
    /\ last.out.value[1].op /= last.out.value[3].op

====
